---------------------------- MODULE Spec2Model ----------------------------
(***************************************************************************)
(* A model of src/utils.py: the four metric evaluators                     *)
(* (compute_accuracy, compute_rmse, compute_roc_auc_score,                 *)
(* compute_precision_score) and the confusion-matrix renderer              *)
(* make_confusion_heatmap.                                                 *)
(*                                                                         *)
(* Conventions.                                                            *)
(*  - A Python string is a sequence of one-character strings, so that      *)
(*    formatting, concatenation and strip() are computed, not assumed.     *)
(*  - A floating-point value is a record [k, n, d]: k = "fin" is the exact *)
(*    rational n/d in lowest terms, k = "nan" / "inf" are the IEEE results *)
(*    of 0/0 and x/0, k = "sqrt" is the square root of n/d, k = "unset" is *)
(*    a local that was never assigned.                                     *)
(*  - An Optional value is a record [none, val].                           *)
(*  - Probabilities are fixed-point, in thousandths.                       *)
(***************************************************************************)
EXTENDS Integers, Sequences, FiniteSets, TLC

VARIABLES
    \* one call of an evaluator
    fn,            \* which of the four functions is running
    dataloader,    \* the data source: a sequence of (features, labels) batches
    it,            \* number of batches the for-loop has consumed
    predictions,   \* Optional tensor: rows of per-class probabilities
    Y_true,        \* Optional tensor: labels
    calls,         \* the batches the model has been called on, in call order
    pc,            \* "idle" | "loop" | "done" | "error"
    result,        \* the returned metric
    \* one call of make_confusion_heatmap
    cf, group_names, categories, count, percent, xyticks, xyplotlabels,
    sum_stats,     \* the arguments
    box_labels,    \* the annot grid handed to sns.heatmap
    accuracy, precision, recall, f1_score,   \* the locals of the statistics
    stats_text,    \* the caption
    xticklabels, yticklabels,                \* what sns.heatmap receives
    xlabel, ylabel,                          \* what pyplot receives
    hpc            \* "idle" | "call" | "done" | "error"

evalVars == <<fn, dataloader, it, predictions, Y_true, calls, pc, result>>
heatArgs == <<cf, group_names, categories, count, percent, xyticks,
              xyplotlabels, sum_stats>>
heatOut  == <<box_labels, accuracy, precision, recall, f1_score, stats_text,
              xticklabels, yticklabels, xlabel, ylabel, hpc>>
vars == <<evalVars, heatArgs, heatOut>>

-----------------------------------------------------------------------------
(* Bounds *)

\* total number of examples of a data source
MaxExamples == 3

\* largest count in a cell of a generated confusion matrix
MaxCell == 1

-----------------------------------------------------------------------------
(* Values *)

None == [none |-> TRUE, val |-> <<>>]
Some(v) == [none |-> FALSE, val |-> v]

\* the values of the categories argument: 'auto', a list, or False
Auto == [kind |-> "auto", val |-> <<>>]
PyFalse == [kind |-> "False", val |-> <<>>]
List(v) == [kind |-> "list", val |-> v]

RECURSIVE GCD(_, _)
GCD(a, b) == IF b = 0 THEN a ELSE GCD(b, a % b)

Abs(x) == IF x < 0 THEN -x ELSE x

NaN == [k |-> "nan", n |-> 0, d |-> 1]
Inf == [k |-> "inf", n |-> 1, d |-> 1]
Unset == [k |-> "unset", n |-> 0, d |-> 1]
Raised == [k |-> "error", n |-> 0, d |-> 1]

\* the rational n/d, d > 0, in lowest terms
Fin(n, d) ==
    LET g == GCD(Abs(n), d)
    IN  [k |-> "fin", n |-> n \div g, d |-> d \div g]

\* numpy's true division of two integers: 0/0 is nan, x/0 is inf (a warning,
\* not an exception)
Div(a, b) ==
    IF b = 0 THEN (IF a = 0 THEN NaN ELSE Inf)
    ELSE IF b < 0 THEN Fin(-a, -b) ELSE Fin(a, b)

-----------------------------------------------------------------------------
(* The metric evaluators *)

Features == {"x0", "x1", "x2"}
Labels == {0, 1}

\* the trained classifier: raw scores of the two classes for each feature
Net == [f \in Features |->
          CASE f = "x0" -> <<1, -1>>
            [] f = "x1" -> <<-1, 1>>
            [] f = "x2" -> <<0, 0>>]

\* outputs = model(X): one row of raw scores per example of the batch
model(X) == [i \in 1..Len(X) |-> Net[X[i]]]

\* torch.sigmoid of one raw score, in thousandths
sigmoid1(x) ==
    CASE x = -1 -> 269
      [] x = 0  -> 500
      [] x = 1  -> 731

\* torch.sigmoid(outputs), element-wise
sigmoid(outputs) ==
    [i \in 1..Len(outputs) |->
        [j \in 1..Len(outputs[i]) |-> sigmoid1(outputs[i][j])]]

\* torch.cat((a, b), dim=0)
cat(a, b) == a \o b

\* a mutant: the new batch replaces the accumulator instead of extending it
AccumulateLabelsReplacing(acc, labels) == Some(labels)

\* lines 28-33, the labels: Y_true = labels, or cat((Y_true, labels))
AccumulateLabels(acc, labels) ==
    IF acc.none THEN Some(labels) ELSE Some(cat(acc.val, labels))

\* a mutant: the new rows are put in front of the accumulated ones
AccumulatePredictionsInFront(acc, outputs) ==
    IF acc.none THEN Some(sigmoid(outputs))
    ELSE Some(cat(sigmoid(outputs), acc.val))

\* lines 28-33, the predictions: sigmoid(outputs), or cat((predictions, ...))
AccumulatePredictions(acc, outputs) ==
    IF acc.none THEN Some(sigmoid(outputs))
    ELSE Some(cat(acc.val, sigmoid(outputs)))

\* torch.argmax(predictions, dim=1): the first index of the row's maximum
argmax(P) == [i \in 1..Len(P) |-> IF P[i][2] > P[i][1] THEN 1 ELSE 0]

\* predictions[:, 1]
column1(P) == [i \in 1..Len(P) |-> P[i][2]]

\* sklearn.metrics.accuracy_score
accuracy_score(y_true, y_pred) ==
    Div(Cardinality({i \in 1..Len(y_true) : y_true[i] = y_pred[i]}),
        Len(y_true))

\* sklearn.metrics.precision_score: tp / (tp + fp), 0.0 (with a warning) when
\* nothing is predicted positive
precision_score(y_true, y_pred) ==
    LET pp == {i \in 1..Len(y_pred) : y_pred[i] = 1}
        tp == {i \in pp : y_true[i] = 1}
    IN  IF pp = {} THEN Fin(0, 1) ELSE Div(Cardinality(tp), Cardinality(pp))

RECURSIVE SumSq(_, _, _)
SumSq(y_true, y_score, i) ==
    IF i = 0 THEN 0
    ELSE SumSq(y_true, y_score, i - 1)
         + (1000 * y_true[i] - y_score[i]) * (1000 * y_true[i] - y_score[i])

\* sklearn.metrics.mean_squared_error(..., squared=False)
mean_squared_error(y_true, y_score) ==
    [k |-> "sqrt", n |-> SumSq(y_true, y_score, Len(y_true)),
     d |-> Len(y_true) * 1000000]

\* sklearn.metrics.roc_auc_score: raises ValueError unless y_true holds
\* exactly two classes; otherwise the share of (positive, negative) pairs
\* ranked correctly, a tie counting one half
roc_auc_score(y_true, y_score) ==
    LET idx == 1..Len(y_true)
        pos == {i \in idx : y_true[i] = 1}
        neg == {i \in idx : y_true[i] = 0}
        won == {p \in pos \X neg : y_score[p[1]] > y_score[p[2]]}
        tie == {p \in pos \X neg : y_score[p[1]] = y_score[p[2]]}
    IN  IF Cardinality({y_true[i] : i \in idx}) # 2 THEN Raised
        ELSE Div(2 * Cardinality(won) + Cardinality(tie),
                 2 * Cardinality(pos) * Cardinality(neg))

\* a mutant: a single-class label set is answered with the chance level 0.5
ReduceRocAucDefaulting(P, Y) ==
    IF P.none \/ Y.none THEN Raised
    ELSE IF Cardinality({Y.val[i] : i \in 1..Len(Y.val)}) # 2 THEN Fin(1, 2)
    ELSE roc_auc_score(Y.val, column1(P.val))

\* line 89: Y_true.numpy() raises AttributeError on None
ReduceRocAuc(P, Y) ==
    IF P.none \/ Y.none THEN Raised
    ELSE roc_auc_score(Y.val, column1(P.val))

\* lines 35-37
ReduceAccuracy(P, Y) ==
    IF P.none \/ Y.none THEN Raised
    ELSE accuracy_score(Y.val, argmax(P.val))

\* lines 62-64
ReduceRmse(P, Y) ==
    IF P.none \/ Y.none THEN Raised
    ELSE mean_squared_error(Y.val, column1(P.val))

\* lines 114-116
ReducePrecision(P, Y) ==
    IF P.none \/ Y.none THEN Raised
    ELSE precision_score(Y.val, argmax(P.val))

Evaluators == {"compute_accuracy", "compute_rmse", "compute_roc_auc_score",
               "compute_precision_score"}

\* a mutant: an evaluator that answers 0.0 when nothing was accumulated
FinalReductionGuarded(f, P, Y) ==
    IF P.none \/ Y.none THEN Fin(0, 1)
    ELSE CASE f = "compute_accuracy" -> ReduceAccuracy(P, Y)
           [] f = "compute_rmse" -> ReduceRmse(P, Y)
           [] f = "compute_roc_auc_score" -> ReduceRocAuc(P, Y)
           [] f = "compute_precision_score" -> ReducePrecision(P, Y)

\* the statement after the loop of evaluator f
FinalReduction(f, P, Y) ==
    CASE f = "compute_accuracy" -> ReduceAccuracy(P, Y)
      [] f = "compute_rmse" -> ReduceRmse(P, Y)
      [] f = "compute_roc_auc_score" -> ReduceRocAuc(P, Y)
      [] f = "compute_precision_score" -> ReducePrecision(P, Y)

\* one pass of the for-loop body of evaluator f
LoopBody(f) ==
    /\ pc = "loop" /\ fn = f
    /\ it < Len(dataloader)
    /\ LET features == dataloader[it + 1][1]
           labels == dataloader[it + 1][2]
           X == features
           outputs == model(X)
       IN  /\ calls' = Append(calls, X)
           /\ predictions' = AccumulatePredictions(predictions, outputs)
           /\ Y_true' = AccumulateLabels(Y_true, labels)
    /\ it' = it + 1
    /\ UNCHANGED <<fn, dataloader, pc, result>>
    /\ UNCHANGED <<heatArgs, heatOut>>

\* the loop of evaluator f is exhausted: reduce and return, or raise
Return(f) ==
    /\ pc = "loop" /\ fn = f
    /\ it = Len(dataloader)
    /\ LET r == FinalReduction(f, predictions, Y_true)
       IN  /\ result' = r
           /\ pc' = IF r.k = "error" THEN "error" ELSE "done"
    /\ UNCHANGED <<fn, dataloader, it, predictions, Y_true, calls>>
    /\ UNCHANGED <<heatArgs, heatOut>>

compute_accuracy ==
    \/ LoopBody("compute_accuracy")
    \/ Return("compute_accuracy")

compute_rmse ==
    \/ LoopBody("compute_rmse")
    \/ Return("compute_rmse")

compute_roc_auc_score ==
    \/ LoopBody("compute_roc_auc_score")
    \/ Return("compute_roc_auc_score")

compute_precision_score ==
    \/ LoopBody("compute_precision_score")
    \/ Return("compute_precision_score")

\* the batches of k examples
Batches(k) ==
    {<<[i \in 1..k |-> ex[i][1]], [i \in 1..k |-> ex[i][2]]>> :
        ex \in [1..k -> Features \X Labels]}

\* the data sources of at most n examples, cut into non-empty batches
RECURSIVE DataLoaders(_)
DataLoaders(n) ==
    {<<>>} \cup
    UNION {{<<b>> \o rest : b \in Batches(k), rest \in DataLoaders(n - k)} :
              k \in 1..n}

HeatIdle ==
    /\ cf = <<>> /\ group_names = None /\ categories = Auto
    /\ count = FALSE /\ percent = FALSE /\ xyticks = FALSE
    /\ xyplotlabels = FALSE /\ sum_stats = FALSE
    /\ box_labels = None
    /\ accuracy = Unset /\ precision = Unset /\ recall = Unset
    /\ f1_score = Unset
    /\ stats_text = None
    /\ xticklabels = None /\ yticklabels = None
    /\ xlabel = None /\ ylabel = None
    /\ hpc = "idle"

\* lines 19-20: an evaluator is entered with both accumulators unset
InitEval ==
    /\ fn \in Evaluators
    /\ dataloader \in DataLoaders(MaxExamples)
    /\ it = 0
    /\ predictions = None
    /\ Y_true = None
    /\ calls = <<>>
    /\ pc = "loop"
    /\ result = Unset
    /\ HeatIdle

NextEval ==
    \/ compute_accuracy
    \/ compute_rmse
    \/ compute_roc_auc_score
    \/ compute_precision_score

SpecEval == InitEval /\ [][NextEval]_vars

-----------------------------------------------------------------------------
(* make_confusion_heatmap: text *)

Whitespace == {" ", "\n", "\t"}

DigitChars == <<"0", "1", "2", "3", "4", "5", "6", "7", "8", "9">>

\* the decimal digits of n >= 0
RECURSIVE Digits(_)
Digits(n) ==
    IF n < 10 THEN <<DigitChars[n + 1]>>
    ELSE Digits(n \div 10) \o <<DigitChars[(n % 10) + 1]>>

\* the last p decimal digits of n, zero-padded
RECURSIVE PadDigits(_, _)
PadDigits(n, p) ==
    IF p = 0 THEN <<>>
    ELSE PadDigits(n \div 10, p - 1) \o <<DigitChars[(n % 10) + 1]>>

RECURSIVE Pow10(_)
Pow10(p) == IF p = 0 THEN 1 ELSE 10 * Pow10(p - 1)

\* n/d (n >= 0, d > 0) rounded to an integer, a tie going to the even one
RoundHalfEven(n, d) ==
    LET q == n \div d
        r == n % d
    IN  IF 2 * r > d \/ (2 * r = d /\ q % 2 = 1) THEN q + 1 ELSE q

\* format(x, ".pf") of a float x >= 0
FormatFixed(x, p) ==
    CASE x.k = "nan" -> <<"n", "a", "n">>
      [] x.k = "inf" -> <<"i", "n", "f">>
      [] OTHER ->
           LET q == RoundHalfEven(x.n * Pow10(p), x.d)
           IN  Digits(q \div Pow10(p)) \o <<".">> \o PadDigits(q, p)

\* "{0:0.0f}\n".format(value) of an integer count, line 165
FormatCount(value) == Digits(value) \o <<"\n">>

\* "{0:.2%}".format(value), line 171: the value times 100, two decimals
FormatPercent(x) ==
    (CASE x.k = "nan" -> <<"n", "a", "n">>
       [] x.k = "inf" -> <<"i", "n", "f">>
       [] OTHER ->
            LET q == RoundHalfEven(x.n * 10000, x.d)
            IN  Digits(q \div 100) \o <<".">> \o PadDigits(q, 2))
    \o <<"%">>

RECURSIVE LStrip(_)
LStrip(s) ==
    IF s # <<>> /\ Head(s) \in Whitespace THEN LStrip(Tail(s)) ELSE s

RECURSIVE RStrip(_)
RStrip(s) ==
    IF s # <<>> /\ s[Len(s)] \in Whitespace
    THEN RStrip(SubSeq(s, 1, Len(s) - 1)) ELSE s

\* str.strip()
Strip(s) == RStrip(LStrip(s))

-----------------------------------------------------------------------------
(* make_confusion_heatmap: the cell labels, lines 156-180 *)

NRows(m) == Len(m)
NCols(m) == Len(m[1])

\* cf.size
Size(m) == NRows(m) * NCols(m)

\* cf.flatten(): row-major
Flatten(m) ==
    [i \in 1..Size(m) |->
        m[((i - 1) \div NCols(m)) + 1][((i - 1) % NCols(m)) + 1]]

RECURSIVE SumSeq(_, _)
SumSeq(s, i) == IF i = 0 THEN 0 ELSE SumSeq(s, i - 1) + s[i]

\* np.sum(cf)
Total(m) == SumSeq(Flatten(m), Size(m))

Min(a, b) == IF a < b THEN a ELSE b

\* np.trace(cf)
RECURSIVE TraceTo(_, _)
TraceTo(m, i) == IF i = 0 THEN 0 ELSE TraceTo(m, i - 1) + m[i][i]
Trace(m) == TraceTo(m, Min(NRows(m), NCols(m)))

\* line 157
Blanks(m) == [i \in 1..Size(m) |-> <<>>]

\* a mutant: the length of group_names is not compared with cf.size
GroupLabelsUnchecked(m, names) ==
    IF ~names.none /\ names.val # <<>>
    THEN [i \in 1..Len(names.val) |-> names.val[i] \o <<"\n">>]
    ELSE Blanks(m)

\* lines 159-162: a None or empty group_names is falsy
GroupLabels(m, names) ==
    IF ~names.none /\ names.val # <<>> /\ Len(names.val) = Size(m)
    THEN [i \in 1..Len(names.val) |-> names.val[i] \o <<"\n">>]
    ELSE Blanks(m)

\* lines 164-167
GroupCounts(m, cnt) ==
    IF cnt THEN [i \in 1..Size(m) |-> FormatCount(Flatten(m)[i])]
    ELSE Blanks(m)

\* lines 169-174
GroupPercentages(m, pct) ==
    IF pct
    THEN [i \in 1..Size(m) |-> FormatPercent(Div(Flatten(m)[i], Total(m)))]
    ELSE Blanks(m)

\* a mutant: the concatenation is not stripped
LabelTextUnstripped(v1, v2, v3) == v1 \o v2 \o v3

\* line 177: f"{v1}{v2}{v3}".strip()
LabelText(v1, v2, v3) == Strip(v1 \o v2 \o v3)

\* lines 176-179: zip stops at the shortest of the three lists
ZipLabels(gl, gc, gp) ==
    [i \in 1..Min(Len(gl), Min(Len(gc), Len(gp))) |->
        LabelText(gl[i], gc[i], gp[i])]

\* line 180: reshape raises ValueError unless the list has rows * cols items
Reshape(list, r, c) ==
    IF Len(list) # r * c THEN None
    ELSE Some([i \in 1..r |-> [j \in 1..c |-> list[(i - 1) * c + j]]])

BoxLabels(m, names, cnt, pct) ==
    Reshape(ZipLabels(GroupLabels(m, names), GroupCounts(m, cnt),
                      GroupPercentages(m, pct)),
            NRows(m), NCols(m))

-----------------------------------------------------------------------------
(* make_confusion_heatmap: the summary statistics, lines 183-199 *)

\* float arithmetic on the values of this model
FMul(x, y) ==
    CASE x.k = "nan" \/ y.k = "nan" -> NaN
      [] x.k = "inf" -> IF y.k = "fin" /\ y.n = 0 THEN NaN ELSE Inf
      [] y.k = "inf" -> IF x.n = 0 THEN NaN ELSE Inf
      [] OTHER -> Fin(x.n * y.n, x.d * y.d)

FAdd(x, y) ==
    CASE x.k = "nan" \/ y.k = "nan" -> NaN
      [] x.k = "inf" \/ y.k = "inf" -> Inf
      [] OTHER -> Fin(x.n * y.d + y.n * x.d, x.d * y.d)

FDiv(x, y) ==
    CASE x.k = "nan" \/ y.k = "nan" -> NaN
      [] x.k = "inf" -> IF y.k = "inf" THEN NaN ELSE Inf
      [] y.k = "inf" -> Fin(0, 1)
      [] OTHER -> Div(x.n * y.d, x.d * y.n)

\* line 185
AccuracyOf(m) == Div(Trace(m), Total(m))

\* sum(cf[:, 1])
Column1Sum(m) == SumSeq([i \in 1..NRows(m) |-> m[i][2]], NRows(m))

\* sum(cf[1, :])
Row1Sum(m) == SumSeq(m[2], NCols(m))

\* a mutant: the denominator is the row of cell [1, 1], not its column
PrecisionOverRow(m) == Div(m[2][2], Row1Sum(m))

\* line 190
PrecisionOf(m) == Div(m[2][2], Column1Sum(m))

\* line 191
RecallOf(m) == Div(m[2][2], Row1Sum(m))

\* line 192
F1Of(p, r) == FDiv(FMul(FMul(Fin(2, 1), p), r), FAdd(p, r))

\* a mutant: the binary branch is taken by 2 x 2 matrices only
IsBinarySquare(m) == NRows(m) = 2 /\ NCols(m) = 2

\* line 188: len(cf) == 2
IsBinary(m) == NRows(m) = 2

TxtAccuracy == <<"\n", "\n", "A", "c", "c", "u", "r", "a", "c", "y", "=">>
TxtPrecision == <<"\n", "P", "r", "e", "c", "i", "s", "i", "o", "n", "=">>
TxtRecall == <<"\n", "R", "e", "c", "a", "l", "l", "=">>
TxtF1 == <<"\n", "F", "1", " ", "S", "c", "o", "r", "e", "=">>

\* lines 193-195
BinaryCaption(a, p, r, f) ==
    TxtAccuracy \o FormatFixed(a, 3) \o TxtPrecision \o FormatFixed(p, 3)
    \o TxtRecall \o FormatFixed(r, 3) \o TxtF1 \o FormatFixed(f, 3)

\* line 197
AccuracyCaption(a) == TxtAccuracy \o FormatFixed(a, 3)

\* lines 183-199; raised: cf[1, 1] is out of bounds (IndexError)
Statistics(m, stats) ==
    IF ~stats
    THEN [raised |-> FALSE, accuracy |-> Unset, precision |-> Unset,
          recall |-> Unset, f1_score |-> Unset, stats_text |-> Some(<<>>)]
    ELSE IF ~IsBinary(m)
    THEN [raised |-> FALSE, accuracy |-> AccuracyOf(m), precision |-> Unset,
          recall |-> Unset, f1_score |-> Unset,
          stats_text |-> Some(AccuracyCaption(AccuracyOf(m)))]
    ELSE IF NCols(m) < 2
    THEN [raised |-> TRUE, accuracy |-> AccuracyOf(m), precision |-> Unset,
          recall |-> Unset, f1_score |-> Unset, stats_text |-> None]
    ELSE LET a == AccuracyOf(m)
             p == PrecisionOf(m)
             r == RecallOf(m)
             f == F1Of(p, r)
         IN  [raised |-> FALSE, accuracy |-> a, precision |-> p,
              recall |-> r, f1_score |-> f,
              stats_text |-> Some(BinaryCaption(a, p, r, f))]

-----------------------------------------------------------------------------
(* make_confusion_heatmap: the figure, lines 201-229 *)

\* a mutant: categories reach the heatmap whatever xyticks says
TickLabelsAlways(ticks, cats) == cats

\* lines 206-208 and 218-219
TickLabels(ticks, cats) == IF ticks = FALSE THEN PyFalse ELSE cats

TxtTrueLabel == <<"T", "r", "u", "e", " ", "l", "a", "b", "e", "l">>
TxtPredictedLabel == <<"P", "r", "e", "d", "i", "c", "t", "e", "d", " ", "l", "a", "b", "e", "l">>

\* one call of make_confusion_heatmap
make_confusion_heatmap ==
    /\ hpc = "call"
    /\ LET labels == BoxLabels(cf, group_names, count, percent)
           st == Statistics(cf, sum_stats)
           ticks == TickLabels(xyticks, categories)
       IN  IF labels.none
           THEN /\ hpc' = "error"
                /\ UNCHANGED <<box_labels, accuracy, precision, recall,
                               f1_score, stats_text, xticklabels,
                               yticklabels, xlabel, ylabel>>
           ELSE IF st.raised
           THEN /\ hpc' = "error"
                /\ box_labels' = labels
                /\ accuracy' = st.accuracy
                /\ UNCHANGED <<precision, recall, f1_score, stats_text,
                               xticklabels, yticklabels, xlabel, ylabel>>
           ELSE /\ hpc' = "done"
                /\ box_labels' = labels
                /\ accuracy' = st.accuracy
                /\ precision' = st.precision
                /\ recall' = st.recall
                /\ f1_score' = st.f1_score
                /\ stats_text' = st.stats_text
                /\ xticklabels' = Some(ticks)
                /\ yticklabels' = Some(ticks)
                /\ IF xyplotlabels
                   THEN /\ ylabel' = Some(TxtTrueLabel)
                        /\ xlabel' = Some(TxtPredictedLabel
                                          \o st.stats_text.val)
                   ELSE /\ xlabel' = Some(st.stats_text.val)
                        /\ ylabel' = None
    /\ UNCHANGED heatArgs
    /\ UNCHANGED evalVars

\* the shapes of the generated matrices
Shapes == {<<1, 1>>, <<1, 2>>, <<2, 1>>, <<2, 2>>, <<2, 3>>, <<3, 1>>}

\* the binary matrix of the documentation, and a three-class one
ExampleCf == <<<<50, 10>>, <<5, 35>>>>
ExampleCf3 == <<<<2, 0, 1>>, <<0, 1, 0>>, <<1, 0, 3>>>>

Matrices ==
    UNION {[1..sh[1] -> [1..sh[2] -> 0..MaxCell]] : sh \in Shapes}
    \cup {ExampleCf, ExampleCf3}

\* the i-th group name; every second one carries blanks around it
GroupName(i) ==
    IF i % 2 = 1 THEN <<"g">> \o Digits(i)
    ELSE <<" ", "g">> \o Digits(i) \o <<" ">>

GroupNames(k) == [i \in 1..k |-> GroupName(i)]

\* group_names: absent, one per cell, one too few, one too many
GroupNameInputs(m) ==
    {None, Some(GroupNames(Size(m))), Some(GroupNames(Size(m) - 1)),
     Some(GroupNames(Size(m) + 1))}

CategoryInputs == {Auto, List(<<<<"n", "e", "g">>, <<"p", "o", "s">>>>)}

EvalIdle ==
    /\ fn = "none" /\ dataloader = <<>> /\ it = 0
    /\ predictions = None /\ Y_true = None /\ calls = <<>>
    /\ pc = "idle" /\ result = Unset

InitHeat ==
    /\ cf \in Matrices
    /\ group_names \in GroupNameInputs(cf)
    /\ categories \in CategoryInputs
    /\ count \in BOOLEAN
    /\ percent \in BOOLEAN
    /\ xyticks \in BOOLEAN
    /\ xyplotlabels \in BOOLEAN
    /\ sum_stats \in BOOLEAN
    /\ box_labels = None
    /\ accuracy = Unset /\ precision = Unset /\ recall = Unset
    /\ f1_score = Unset
    /\ stats_text = None
    /\ xticklabels = None /\ yticklabels = None
    /\ xlabel = None /\ ylabel = None
    /\ hpc = "call"
    /\ EvalIdle

NextHeat == make_confusion_heatmap

SpecHeat == InitHeat /\ [][NextHeat]_vars

-----------------------------------------------------------------------------
(* Properties of the evaluators *)

\* features (c = 1) or labels (c = 2) of the first k batches, concatenated
RECURSIVE Flat(_, _, _)
Flat(dl, c, k) == IF k = 0 THEN <<>> ELSE Flat(dl, c, k - 1) \o dl[k][c]

\* number of rows an accumulator holds (an unset accumulator holds none)
Rows(acc) == IF acc.none THEN 0 ELSE Len(acc.val)

\* sigmoid of the classifier's scores for each feature, to three decimals
ExpectedProbabilities ==
    [f \in Features |->
        CASE f = "x0" -> <<731, 269>>
          [] f = "x1" -> <<269, 731>>
          [] f = "x2" -> <<500, 500>>]

EvalRunning == pc \in {"loop", "done", "error"}

\* C1: in each evaluator, after every processed batch the predictions and
\* the labels accumulator have the same row count, the cumulative number of
\* examples seen so far; when the loop has ended each holds exactly N rows,
\* N the total size of the data source.
C1_AccumulatorRowCounts ==
    EvalRunning =>
        /\ Rows(predictions) = Len(Flat(dataloader, 2, it))
        /\ Rows(Y_true) = Rows(predictions)
        /\ (it > 0 => ~predictions.none /\ ~Y_true.none)
        /\ (pc # "loop" =>
              /\ Rows(predictions) =
                   Len(Flat(dataloader, 2, Len(dataloader)))
              /\ Rows(Y_true) = Len(Flat(dataloader, 2, Len(dataloader))))

\* an evaluator has finished a source of two batches of different sizes
C1_Witness ==
    /\ pc = "done"
    /\ Len(dataloader) = 2
    /\ Len(dataloader[1][2]) = 2 /\ Len(dataloader[2][2]) = 1
    /\ Rows(predictions) = 3 /\ Rows(Y_true) = 3

\* C2: an evaluator consumes the source once, in order, to completion: the
\* model has been called on exactly the batches consumed so far, each once
\* and in order; row i of the predictions is the sigmoid of the model's
\* output for example i of the source and row i of the labels is that
\* example's label; a result exists only once every batch has been appended.
C2_ConsumedOnceInOrder ==
    EvalRunning =>
        LET xs == Flat(dataloader, 1, it)
            ys == Flat(dataloader, 2, it)
        IN  /\ it <= Len(dataloader)
            /\ calls = [j \in 1..it |-> dataloader[j][1]]
            /\ Rows(predictions) = Len(xs)
            /\ \A i \in 1..Rows(predictions) :
                  predictions.val[i] = ExpectedProbabilities[xs[i]]
            /\ Rows(Y_true) = Len(ys)
            /\ \A i \in 1..Rows(Y_true) : Y_true.val[i] = ys[i]
            /\ (pc # "loop" \/ result # Unset => it = Len(dataloader))

\* a metric was returned for three batches whose examples all differ
C2_Witness ==
    /\ pc = "done"
    /\ Len(dataloader) = 3
    /\ calls = <<<<"x0">>, <<"x1">>, <<"x2">>>>
    /\ Y_true.val = <<1, 0, 1>>
    /\ result.k # "unset"

\* C3: compute_roc_auc_score ends in an error, and returns no value, when
\* the labels of the whole data source hold only one class.
C3_SingleClassIsAnError ==
    (/\ fn = "compute_roc_auc_score"
     /\ pc \in {"done", "error"}
     /\ Cardinality({Flat(dataloader, 2, Len(dataloader))[i] :
                       i \in 1..Len(Flat(dataloader, 2, Len(dataloader)))})
          = 1)
    => pc = "error" /\ result.k = "error"

\* compute_roc_auc_score has raised on two batches of positive labels only
C3_Witness ==
    /\ fn = "compute_roc_auc_score"
    /\ pc = "error"
    /\ Len(dataloader) = 2
    /\ Y_true = Some(<<1, 1, 1>>)

\* C10: on a data source that yields no batch, every evaluator ends in an
\* error after the empty loop, both accumulators still unset; none returns
\* a metric value.
C10_EmptySourceIsAnError ==
    (EvalRunning /\ dataloader = <<>> /\ pc # "loop")
    => /\ pc = "error"
       /\ result.k = "error"
       /\ predictions.none /\ Y_true.none

\* compute_rmse has raised on the empty source
C10_Witness ==
    /\ fn = "compute_rmse"
    /\ dataloader = <<>>
    /\ pc = "error"
    /\ it = 0

-----------------------------------------------------------------------------
(* Properties of make_confusion_heatmap *)

HeatReturned == hpc = "done"
HeatEnded == hpc \in {"done", "error"}

\* x is the float quotient a / b (0/0 is nan, a/0 is inf)
IsQuotient(x, a, b) ==
    IF b = 0 THEN x.k = (IF a = 0 THEN "nan" ELSE "inf")
    ELSE x.k = "fin" /\ x.d > 0 /\ x.n * b = a * x.d

\* f is the float 2 * p * r / (p + r)
IsF1(f, p, r) ==
    IF p.k = "fin" /\ r.k = "fin" /\ p.n * r.d + r.n * p.d # 0
    THEN f.k = "fin" /\ f.d > 0
         /\ f.n * (p.n * r.d + r.n * p.d) = 2 * p.n * r.n * f.d
    ELSE f.k = "nan"

\* t is s without its leading and trailing whitespace
IsStripOf(t, s) ==
    \E a \in 0..Len(s) : \E b \in 0..(Len(s) - a) :
        /\ t = SubSeq(s, a + 1, Len(s) - b)
        /\ \A i \in 1..a : s[i] \in Whitespace
        /\ \A i \in (Len(s) - b + 1)..Len(s) : s[i] \in Whitespace
        /\ (t # <<>> => t[1] \notin Whitespace /\ t[Len(t)] \notin Whitespace)

\* the count and percentage parts of the label of cell (r, c)
CountPart(r, c) ==
    IF count THEN FormatCount(cf[r][c]) ELSE <<>>
PercentPart(r, c) ==
    IF percent THEN FormatPercent(Div(cf[r][c], Total(cf))) ELSE <<>>

\* the group-name part of the label of cell (r, c), group names in use
NamePart(r, c) == group_names.val[(r - 1) * NCols(cf) + c] \o <<"\n">>

GroupNamesUsable ==
    ~group_names.none /\ Len(group_names.val) = Size(cf)

LabelGridHasShapeOfCf ==
    /\ ~box_labels.none
    /\ Len(box_labels.val) = NRows(cf)
    /\ \A r \in 1..NRows(cf) : Len(box_labels.val[r]) = NCols(cf)

\* a caption holding a nan, the binary statistics of a matrix whose cell
\* [1, 1], row 1 or column 1 is empty
HasNonFiniteStatistic ==
    precision.k \in {"nan", "inf"} \/ recall.k \in {"nan", "inf"}
    \/ f1_score.k \in {"nan", "inf"}

\* C4: with sum_stats on a 2-row binary matrix, a zero sum of column 1, a
\* zero sum of row 1 or a zero precision + recall is reported as an error;
\* the call never completes with a caption built from a non-finite value.
C4_ZeroDivisionIsAnError ==
    (/\ HeatEnded /\ sum_stats
     /\ NRows(cf) = 2 /\ NCols(cf) >= 2
     /\ (Column1Sum(cf) = 0 \/ Row1Sum(cf) = 0 \/ cf[2][2] = 0))
    => hpc = "error" /\ stats_text.none /\ ~HasNonFiniteStatistic

C6_CellLabels ==
    HeatEnded =>
        /\ LabelGridHasShapeOfCf
        /\ \A r \in 1..NRows(cf) : \A c \in 1..NCols(cf) :
              IsStripOf(box_labels.val[r][c],
                        (IF GroupNamesUsable THEN NamePart(r, c) ELSE <<>>)
                        \o CountPart(r, c) \o PercentPart(r, c))
        /\ (~count /\ ~percent /\ (group_names.none \/ group_names.val = <<>>)
              => \A r \in 1..NRows(cf) : \A c \in 1..NCols(cf) :
                    box_labels.val[r][c] = <<>>)
        /\ (cf = ExampleCf /\ count /\ percent /\ group_names.none
              => /\ box_labels.val[1][1] = <<"5", "0", "\n", "5", "0", ".", "0", "0", "%">>
                 /\ box_labels.val[1][2] = <<"1", "0", "\n", "1", "0", ".", "0", "0", "%">>
                 /\ box_labels.val[2][1] = <<"5", "\n", "5", ".", "0", "0", "%">>
                 /\ box_labels.val[2][2] = <<"3", "5", "\n", "3", "5", ".", "0", "0", "%">>)
        /\ (cf = <<<<1, 1>>, <<1, 0>>>> /\ ~count /\ percent
            /\ group_names.none
              => /\ box_labels.val[1][1] = <<"3", "3", ".", "3", "3", "%">>
                 /\ box_labels.val[2][2] = <<"0", ".", "0", "0", "%">>)
        /\ (cf = ExampleCf3 /\ count /\ percent /\ GroupNamesUsable
              => /\ box_labels.val[1][3] = <<"g", "3", "\n", "1", "\n", "1", "2", ".", "5", "0", "%">>
                 /\ box_labels.val[3][3] = <<"g", "9", "\n", "3", "\n", "3", "7", ".", "5", "0", "%">>)

\* every component is in the labels of the three-class matrix
C6_Witness ==
    /\ HeatReturned /\ cf = ExampleCf3 /\ count /\ percent
    /\ GroupNamesUsable
    /\ box_labels.val[2][2] = <<"g", "5", "\n", "1", "\n", "1", "2", ".", "5", "0", "%">>

\* C7: a group_names whose length differs from the number of cells does not
\* make the call fail; the names are ignored and every label is the one
\* built without group names; names are in the labels only when the length
\* equals the number of cells.
C7_MismatchedGroupNamesIgnored ==
    (HeatEnded /\ ~group_names.none) =>
        /\ LabelGridHasShapeOfCf
        /\ (hpc = "error" => sum_stats /\ NRows(cf) = 2 /\ NCols(cf) < 2)
        /\ \A r \in 1..NRows(cf) : \A c \in 1..NCols(cf) :
              IF Len(group_names.val) # Size(cf)
              THEN IsStripOf(box_labels.val[r][c],
                             CountPart(r, c) \o PercentPart(r, c))
              ELSE IsStripOf(box_labels.val[r][c],
                             NamePart(r, c) \o CountPart(r, c)
                             \o PercentPart(r, c))

\* five names were passed for the four cells of a matrix
C7_Witness ==
    /\ HeatReturned
    /\ ~group_names.none
    /\ Size(cf) = 4 /\ Len(group_names.val) = 5
    /\ count /\ ~percent
    /\ cf[1][1] = 1
    /\ box_labels.val[1][1] = <<"1">>

C9_TicksSuppressed ==
    HeatReturned =>
        /\ xticklabels = Some(IF xyticks THEN categories ELSE PyFalse)
        /\ yticklabels = xticklabels

\* categories were supplied and suppressed
C9_Witness ==
    /\ HeatReturned
    /\ ~xyticks
    /\ categories.kind = "list"
    /\ xticklabels = Some(PyFalse)

=============================================================================
